---- MODULE Spec2Model ----
(***************************************************************************)
(* The postgresql_extension resource of terraform-provider-postgresql:     *)
(* the five lifecycle handlers (Create, Read, Update, Delete, Exists) of   *)
(* resource_postgresql_extension.go, run by concurrent goroutines against  *)
(* one Client (one catalog lock, one database catalog).                    *)
(***************************************************************************)
EXTENDS Integers, Sequences, FiniteSets, TLC

\* Number of handler calls the engine makes in one run.
MaxCalls == 3

\* The goroutines of the engine that call the handlers on one Client.
Procs == {1, 2}

\* Extensions, schemas and versions known to the target database.
Names == {"hstore"}
Schemas == {"public", "app"}
Versions == {"1.0", "1.1"}

\* What the database picks when CREATE EXTENSION / ALTER EXTENSION UPDATE
\* names no schema or version.
DefaultSchema == "public"
DefaultVersion == "1.1"

NoRow == [schema |-> "", version |-> ""]
Rows == [schema : Schemas, version : Versions]

NoProc == 0

VARIABLES
    supported,  \* c.featureSupported(featureExtension)
    catalog,    \* pg_extension joined with pg_namespace: name -> row | NoRow
    gone,       \* history: how the row of a name was last removed
    writer,     \* c.catalogLock: the goroutine holding it exclusively
    readers,    \* c.catalogLock: the goroutines holding it shared
    pc,         \* each goroutine's position in its handler
    op,         \* the handler each goroutine last entered
    d,          \* each goroutine's *schema.ResourceData
    err,        \* the error the handler returned ("none" while it runs)
    found,      \* the bool returned by Exists
    stmts,      \* the statements the current call sent, with their outcome
    parallelism,\* how many of the goroutines the engine uses
    calls,      \* the handler calls made so far
    prev,       \* history: the call that ended last, in a serial run
    dirty       \* history: a row was dropped out of band since the last call began

vars == <<supported, catalog, gone, writer, readers, pc, op, d, err, found, stmts,
          parallelism, calls, prev, dirty>>

----------------------------------------------------------------------------
\* Errors, by the text the code gives them.

ErrUnsupported == "postgresql_extension resource is not supported for this Postgres version"
ErrEmptySchema == "Error setting extension name to an empty string"
ErrCreating == "Error creating extension: {{err}}"
ErrReading == "Error reading extension: {{err}}"
ErrDeleting == "Error deleting extension: {{err}}"
ErrSchema == "Error updating extension SCHEMA: {{err}}"
ErrVersion == "Error updating extension version: {{err}}"
\* an error of the driver handed on as it came
ErrDriver == "driver error"

WrappedErrors == {ErrCreating, ErrReading, ErrDeleting, ErrSchema, ErrVersion}

----------------------------------------------------------------------------
\* SQL text, as a sequence of tokens.

QuoteIdentifier(x) == "\"" \o x \o "\""

Idents == Names \cup Schemas \cup Versions \cup {""}

IsQuoted(tok) == \E x \in Idents : QuoteIdentifier(x) = tok
Unquote(tok) == CHOOSE x \in Idents : QuoteIdentifier(x) = tok

\* the statement without IF NOT EXISTS
KwCreatePlain == "CREATE EXTENSION"

KwCreate == "CREATE EXTENSION IF NOT EXISTS"
KwAlter == "ALTER EXTENSION"
KwDrop == "DROP EXTENSION"
ExistsQuerySQL == "SELECT extname FROM pg_catalog.pg_extension WHERE extname = $1"
ReadQuerySQL == "SELECT e.extname, n.nspname, e.extversion FROM pg_catalog.pg_extension e, pg_catalog.pg_namespace n WHERE n.oid = e.extnamespace AND e.extname = $1"

\* d.GetOk(attr): the value and whether it is not the zero value.
GetOk(v) == v # ""

\* the VERSION clause is left out
CreateSQLNoVersion(desc) ==
    <<KwCreate, QuoteIdentifier(desc.name)>>
    \o (IF GetOk(desc.nschema) THEN <<"SCHEMA", QuoteIdentifier(desc.nschema)>> ELSE <<>>)

CreateSQL(desc) ==
    <<KwCreate, QuoteIdentifier(desc.name)>>
    \o (IF GetOk(desc.nschema) THEN <<"SCHEMA", QuoteIdentifier(desc.nschema)>> ELSE <<>>)
    \o (IF GetOk(desc.nversion) THEN <<"VERSION", QuoteIdentifier(desc.nversion)>> ELSE <<>>)

DropSQL(desc) == <<KwDrop, QuoteIdentifier(desc.id)>>

\* the old value of GetChange is used for the new one
SetSchemaSQLOld(desc) ==
    <<KwAlter, QuoteIdentifier(desc.id), "SET SCHEMA", QuoteIdentifier(desc.schema)>>

SetSchemaSQL(desc) ==
    <<KwAlter, QuoteIdentifier(desc.id), "SET SCHEMA", QuoteIdentifier(desc.nschema)>>

\* the TO clause is written whatever the new version is
SetVersionSQLAlwaysTo(desc) ==
    <<KwAlter, QuoteIdentifier(desc.id), "UPDATE", "TO", QuoteIdentifier(desc.nversion)>>

SetVersionSQL(desc) ==
    <<KwAlter, QuoteIdentifier(desc.id), "UPDATE">>
    \o (IF desc.nversion # "" THEN <<"TO", QuoteIdentifier(desc.nversion)>> ELSE <<>>)

----------------------------------------------------------------------------
\* The database: what a statement does to the catalog.

Lookup(cat, n) == IF n \in Names THEN cat[n] ELSE NoRow

HasClause(sql, kw) == \E i \in 1..(Len(sql) - 1) : sql[i] = kw
ClauseArg(sql, kw) == sql[(CHOOSE i \in 1..(Len(sql) - 1) : sql[i] = kw) + 1]

\* The outcomes db.Exec(sql) can have. "error": the driver or the server fails
\* for a reason of its own; "rejected": the server refuses the statement for
\* what the catalog holds; in both the catalog stays as it is and the code gets
\* an error. "ok": the statement takes effect. "skipped": IF NOT EXISTS found
\* the extension and left it.
ExecOutcomes(sql, cat) ==
    LET n == IF Len(sql) >= 2 /\ IsQuoted(sql[2]) THEN Unquote(sql[2]) ELSE ""
        row == Lookup(cat, n)
        fail == [out |-> "error", cat |-> cat]
    IN  {fail} \cup
        CASE sql[1] = "CREATE EXTENSION IF NOT EXISTS" /\ n \in Names /\ row # NoRow ->
                {[out |-> "skipped", cat |-> cat]}
          [] sql[1] = "CREATE EXTENSION IF NOT EXISTS" /\ n \in Names /\ row = NoRow ->
                {[out |-> "ok", cat |-> [cat EXCEPT ![n] =
                    [schema |-> IF HasClause(sql, "SCHEMA")
                                THEN Unquote(ClauseArg(sql, "SCHEMA")) ELSE DefaultSchema,
                     version |-> IF HasClause(sql, "VERSION")
                                 THEN Unquote(ClauseArg(sql, "VERSION")) ELSE DefaultVersion]]]}
          [] sql[1] = "DROP EXTENSION" /\ row # NoRow ->
                {[out |-> "ok", cat |-> [cat EXCEPT ![n] = NoRow]]}
          [] sql[1] = "ALTER EXTENSION" /\ row # NoRow /\ sql[3] = "SET SCHEMA" ->
                {[out |-> "ok", cat |-> [cat EXCEPT ![n].schema = Unquote(sql[4])]]}
          [] sql[1] = "ALTER EXTENSION" /\ row # NoRow /\ sql[3] = "UPDATE" ->
                {[out |-> "ok", cat |-> [cat EXCEPT ![n].version =
                    IF HasClause(sql, "TO") THEN Unquote(ClauseArg(sql, "TO"))
                    ELSE DefaultVersion]]}
          [] sql[1] = "CREATE EXTENSION" /\ n \in Names /\ row = NoRow ->
                {[out |-> "ok", cat |-> [cat EXCEPT ![n] =
                    [schema |-> IF HasClause(sql, "SCHEMA")
                                THEN Unquote(ClauseArg(sql, "SCHEMA")) ELSE DefaultSchema,
                     version |-> IF HasClause(sql, "VERSION")
                                 THEN Unquote(ClauseArg(sql, "VERSION")) ELSE DefaultVersion]]]}
          [] OTHER -> {[out |-> "rejected", cat |-> cat]}

\* The outcomes db.QueryRow(query, arg).Scan(...) can have.
QueryOutcomes(arg, cat) ==
    {"error"} \cup (IF Lookup(cat, arg) = NoRow THEN {"norows"} ELSE {"row"})

----------------------------------------------------------------------------
\* schema.ResourceData

NewDescriptor(n, s, v) ==
    [id |-> "", name |-> n, schema |-> "", version |-> "", nschema |-> s, nversion |-> v]

ImportedDescriptor(n) ==
    [id |-> n, name |-> "", schema |-> "", version |-> "", nschema |-> "", nversion |-> ""]

\* d.HasChange(attr): the value of the state differs from the planned one.
HasChangeSchema(desc) == desc.schema # desc.nschema

\* the version is taken as changed in every update
HasChangeVersionAlways(desc) == TRUE

HasChangeVersion(desc) == desc.version # desc.nversion

\* the empty schema is let through
EmptySchemaAccepted(desc) == FALSE

\* if n == "" { return errors.New(...) }
EmptySchemaRejected(desc) == desc.nschema = ""

----------------------------------------------------------------------------
\* c.catalogLock, a sync.RWMutex

\* Create takes the lock with RLock
LockModeCreateShared(o) == IF o \in {"Read", "Create"} THEN "shared" ELSE "exclusive"

\* Exists, which only reads, takes the lock with RLock
LockModeExistsShared(o) == IF o \in {"Read", "Exists"} THEN "shared" ELSE "exclusive"

LockMode(o) == IF o = "Read" THEN "shared" ELSE "exclusive"

\* a reader does not wait for the writer
CanLockReaderBarges(p) ==
    IF LockMode(op[p]) = "shared" THEN TRUE
    ELSE writer = NoProc /\ readers = {}

CanLock(p) ==
    IF LockMode(op[p]) = "shared" THEN writer = NoProc
    ELSE writer = NoProc /\ readers = {}

Lock(p) ==
    IF LockMode(op[p]) = "shared"
    THEN readers' = readers \cup {p} /\ writer' = writer
    ELSE writer' = p /\ readers' = readers

\* the deferred Unlock / RUnlock
Unlock(p) ==
    IF LockMode(op[p]) = "shared"
    THEN readers' = readers \ {p} /\ writer' = writer
    ELSE writer' = NoProc /\ readers' = readers

Sent(p, sql, arg, out) ==
    stmts' = [stmts EXCEPT ![p] = Append(@, [sql |-> sql, arg |-> arg, out |-> out])]

\* the unlock is written at the end of the body, and an early return skips it
ReturnUnlockOnSuccess(p, e) ==
    /\ err' = [err EXCEPT ![p] = e]
    /\ pc' = [pc EXCEPT ![p] = "ret"]
    /\ IF e = "ok" THEN Unlock(p) ELSE UNCHANGED <<writer, readers>>

\* the handler returns e: the deferred unlock runs and the caller gets e
Return(p, e) ==
    /\ err' = [err EXCEPT ![p] = e]
    /\ pc' = [pc EXCEPT ![p] = "ret"]
    /\ Unlock(p)

----------------------------------------------------------------------------
\* History of a serial run (parallelism = 1): the call that ended last.

Tracking == parallelism = 1

NoPrev ==
    [proc |-> NoProc, op |-> "none", err |-> "none", found |-> FALSE,
     d |-> NewDescriptor("", "", ""), stmts |-> <<>>, dirty |-> FALSE]

Summary(p) ==
    [proc |-> p, op |-> op[p], err |-> err[p], found |-> found[p],
     d |-> d[p], stmts |-> stmts[p], dirty |-> FALSE]

----------------------------------------------------------------------------
\* the handlers of the resource
Ops == {"Create", "Read", "Update", "Delete", "Exists"}

Init ==
    /\ supported \in BOOLEAN
    /\ catalog \in [Names -> Rows \cup {NoRow}]
    /\ gone = [n \in Names |-> "none"]
    /\ writer = NoProc
    /\ readers = {}
    /\ pc = [p \in Procs |-> "idle"]
    /\ op = [p \in Procs |-> "none"]
    /\ d = [p \in Procs |-> NewDescriptor("", "", "")]
    /\ err = [p \in Procs |-> "none"]
    /\ found = [p \in Procs |-> FALSE]
    /\ stmts = [p \in Procs |-> <<>>]
    /\ parallelism = Cardinality(Procs)
    /\ calls = 0
    /\ prev = NoPrev
    /\ dirty = FALSE

\* the same, with the engine running one call at a time
InitSerial ==
    /\ supported \in BOOLEAN
    /\ catalog \in [Names -> Rows \cup {NoRow}]
    /\ gone = [n \in Names |-> "none"]
    /\ writer = NoProc
    /\ readers = {}
    /\ pc = [p \in Procs |-> "idle"]
    /\ op = [p \in Procs |-> "none"]
    /\ d = [p \in Procs |-> NewDescriptor("", "", "")]
    /\ err = [p \in Procs |-> "none"]
    /\ found = [p \in Procs |-> FALSE]
    /\ stmts = [p \in Procs |-> <<>>]
    /\ parallelism = 1
    /\ calls = 0
    /\ prev = NoPrev
    /\ dirty = FALSE

\* concurrent calls, with one call of the budget already spent
InitFair ==
    /\ supported \in BOOLEAN
    /\ catalog \in [Names -> Rows \cup {NoRow}]
    /\ gone = [n \in Names |-> "none"]
    /\ writer = NoProc
    /\ readers = {}
    /\ pc = [p \in Procs |-> "idle"]
    /\ op = [p \in Procs |-> "none"]
    /\ d = [p \in Procs |-> NewDescriptor("", "", "")]
    /\ err = [p \in Procs |-> "none"]
    /\ found = [p \in Procs |-> FALSE]
    /\ stmts = [p \in Procs |-> <<>>]
    /\ parallelism = Cardinality(Procs)
    /\ calls = 1
    /\ prev = NoPrev
    /\ dirty = FALSE

\* The engine builds the ResourceData of a call: Create gets the planned
\* values and no state; Update gets the state and the planned values; the
\* others get the state alone.
CallData(p, o, n, s, v) ==
    CASE o = "Create" -> NewDescriptor(n, s, v)
      [] o = "Update" -> [d[p] EXCEPT !.nschema = s, !.nversion = v]
      [] OTHER -> [d[p] EXCEPT !.nschema = d[p].schema, !.nversion = d[p].version]

Call(p, o, n, s, v) ==
    /\ pc[p] = "idle"
    /\ p <= parallelism
    /\ calls < MaxCalls
    /\ calls' = calls + 1
    /\ op' = [op EXCEPT ![p] = o]
    /\ d' = [d EXCEPT ![p] = CallData(p, o, n, s, v)]
    /\ pc' = [pc EXCEPT ![p] = "gate"]
    /\ IF Tracking
       THEN prev' = [prev EXCEPT !.dirty = dirty] /\ dirty' = FALSE
       ELSE UNCHANGED <<prev, dirty>>
    /\ UNCHANGED <<supported, catalog, gone, writer, readers, err, found, stmts, parallelism>>

\* schema.ImportStatePassthrough: the raw id becomes the identity.
Import(p, n) ==
    /\ pc[p] = "idle"
    /\ p <= parallelism
    /\ d[p] # ImportedDescriptor(n)
    /\ d' = [d EXCEPT ![p] = ImportedDescriptor(n)]
    /\ IF Tracking THEN prev' = NoPrev ELSE prev' = prev
    /\ UNCHANGED <<supported, catalog, gone, writer, readers, pc, op, err, found, stmts,
                   parallelism, calls, dirty>>

\* Read goes on to the lock without the check
FeatureGateReadUnchecked(p) ==
    /\ pc[p] = "gate"
    /\ IF supported \/ op[p] = "Read"
       THEN /\ pc' = [pc EXCEPT ![p] = "lock"]
            /\ err' = err
       ELSE /\ pc' = [pc EXCEPT ![p] = "ret"]
            /\ err' = [err EXCEPT ![p] = ErrUnsupported]
    /\ UNCHANGED <<supported, catalog, gone, writer, readers, op, d, found, stmts,
                   parallelism, calls, prev, dirty>>

\* if !c.featureSupported(featureExtension) { return fmt.Errorf(...) }
FeatureGate(p) ==
    /\ pc[p] = "gate"
    /\ IF supported
       THEN /\ pc' = [pc EXCEPT ![p] = "lock"]
            /\ err' = err
       ELSE /\ pc' = [pc EXCEPT ![p] = "ret"]
            /\ err' = [err EXCEPT ![p] = ErrUnsupported]
    /\ UNCHANGED <<supported, catalog, gone, writer, readers, op, d, found, stmts,
                   parallelism, calls, prev, dirty>>

FirstStep(o) ==
    CASE o = "Create" -> "create"
      [] o = "Exists" -> "exists"
      [] o = "Read" -> "readimpl"
      [] o = "Delete" -> "drop"
      [] o = "Update" -> "setschema"

\* c.catalogLock.Lock() / c.catalogLock.RLock()
Acquire(p) ==
    /\ pc[p] = "lock"
    /\ CanLock(p)
    /\ Lock(p)
    /\ pc' = [pc EXCEPT ![p] = FirstStep(op[p])]
    /\ UNCHANGED <<supported, catalog, gone, op, d, err, found, stmts, parallelism, calls, prev, dirty>>

Removed(cat, by) ==
    [n \in Names |-> IF cat[n] # NoRow THEN "none"
                     ELSE IF catalog[n] # NoRow THEN by ELSE gone[n]]

\* the confirming read goes through the handler that takes the lock
ConfirmStepLocking == "lock"

\* return resourcePostgreSQLExtensionReadImpl(d, meta): where Create and Update go on
ConfirmStep == "readimpl"

\* the identity is set before the statement is executed
CreateExecSetsIdFirst(p) ==
    /\ pc[p] = "create"
    /\ \E o \in ExecOutcomes(CreateSQL(d[p]), catalog) :
        /\ Sent(p, CreateSQL(d[p]), "", o.out)
        /\ catalog' = o.cat
        /\ gone' = IF Tracking THEN Removed(o.cat, "drop") ELSE gone
        /\ d' = [d EXCEPT ![p].id = d[p].name]
        /\ IF o.out \in {"error", "rejected"}
           THEN Return(p, ErrCreating)
           ELSE /\ pc' = [pc EXCEPT ![p] = "readimpl"]
                /\ UNCHANGED <<err, writer, readers>>
    /\ UNCHANGED <<supported, op, found, parallelism, calls, prev, dirty>>

\* resourcePostgreSQLExtensionCreate, after the lock
CreateExec(p) ==
    /\ pc[p] = "create"
    /\ \E o \in ExecOutcomes(CreateSQL(d[p]), catalog) :
        /\ Sent(p, CreateSQL(d[p]), "", o.out)
        /\ catalog' = o.cat
        /\ gone' = IF Tracking THEN Removed(o.cat, "drop") ELSE gone
        /\ IF o.out \in {"error", "rejected"}
           THEN Return(p, ErrCreating) /\ d' = d
           ELSE /\ d' = [d EXCEPT ![p].id = d[p].name]
                /\ pc' = [pc EXCEPT ![p] = ConfirmStep]
                /\ UNCHANGED <<err, writer, readers>>
    /\ UNCHANGED <<supported, op, found, parallelism, calls, prev, dirty>>

\* a read that finds no row is reported as a failure
ReadErrNoRowsToo(o) == IF o \in {"error", "norows"} THEN ErrReading ELSE "ok"

\* the error of resourcePostgreSQLExtensionReadImpl for an outcome of its query
ReadErr(o) == IF o = "error" THEN ErrReading ELSE "ok"

\* resourcePostgreSQLExtensionReadImpl: the full read, then the descriptor
\* takes the row's values, or loses its identity when there is no row.
ReadImpl(p) ==
    /\ pc[p] = "readimpl"
    /\ \E o \in QueryOutcomes(d[p].id, catalog) :
        /\ Sent(p, <<ReadQuerySQL>>, d[p].id, o)
        /\ CASE o = "norows" ->
                  /\ d' = [d EXCEPT ![p].id = ""]
                  /\ Return(p, ReadErr(o))
             [] o = "error" ->
                  /\ d' = d
                  /\ Return(p, ReadErr(o))
             [] o = "row" ->
                  /\ d' = [d EXCEPT ![p] = [@ EXCEPT !.name = d[p].id,
                                                     !.schema = catalog[d[p].id].schema,
                                                     !.version = catalog[d[p].id].version,
                                                     !.id = d[p].id]]
                  /\ Return(p, ReadErr(o))
    /\ UNCHANGED <<supported, catalog, gone, op, found, parallelism, calls, prev, dirty>>

\* resourcePostgreSQLExtensionExists, after the lock
ExistsQuery(p) ==
    /\ pc[p] = "exists"
    /\ \E o \in QueryOutcomes(d[p].id, catalog) :
        /\ Sent(p, <<ExistsQuerySQL>>, d[p].id, o)
        /\ CASE o = "norows" -> found' = found /\ Return(p, "ok")
             [] o = "error" -> found' = found /\ Return(p, ErrDriver)
             [] o = "row" -> found' = [found EXCEPT ![p] = TRUE] /\ Return(p, "ok")
    /\ UNCHANGED <<supported, catalog, gone, op, d, parallelism, calls, prev, dirty>>

\* the identity is kept after the drop
DeletedIdKept(desc) == desc.id

\* d.SetId("") of resourcePostgreSQLExtensionDelete
DeletedId(desc) == ""

\* resourcePostgreSQLExtensionDelete, after the lock
DropExec(p) ==
    /\ pc[p] = "drop"
    /\ \E o \in ExecOutcomes(DropSQL(d[p]), catalog) :
        /\ Sent(p, DropSQL(d[p]), "", o.out)
        /\ catalog' = o.cat
        /\ gone' = IF Tracking THEN Removed(o.cat, "drop") ELSE gone
        /\ IF o.out \in {"error", "rejected"}
           THEN Return(p, ErrDeleting) /\ d' = d
           ELSE Return(p, "ok") /\ d' = [d EXCEPT ![p].id = DeletedId(d[p])]
    /\ UNCHANGED <<supported, op, found, parallelism, calls, prev, dirty>>

\* Update goes on to the version when the relocation has failed
SetExtSchemaErrorIgnored(p) ==
    /\ pc[p] = "setschema"
    /\ IF ~HasChangeSchema(d[p])
       THEN /\ pc' = [pc EXCEPT ![p] = "setversion"]
            /\ UNCHANGED <<catalog, gone, err, writer, readers, stmts>>
       ELSE IF EmptySchemaRejected(d[p])
       THEN /\ Return(p, ErrEmptySchema)
            /\ UNCHANGED <<catalog, gone, stmts>>
       ELSE \E o \in ExecOutcomes(SetSchemaSQL(d[p]), catalog) :
            /\ Sent(p, SetSchemaSQL(d[p]), "", o.out)
            /\ catalog' = o.cat
            /\ gone' = IF Tracking THEN Removed(o.cat, "drop") ELSE gone
            /\ pc' = [pc EXCEPT ![p] = "setversion"]
            /\ UNCHANGED <<err, writer, readers>>
    /\ UNCHANGED <<supported, op, d, found, parallelism, calls, prev, dirty>>

\* setExtSchema
SetExtSchema(p) ==
    /\ pc[p] = "setschema"
    /\ IF ~HasChangeSchema(d[p])
       THEN /\ pc' = [pc EXCEPT ![p] = "setversion"]
            /\ UNCHANGED <<catalog, gone, err, writer, readers, stmts>>
       ELSE IF EmptySchemaRejected(d[p])
       THEN /\ Return(p, ErrEmptySchema)
            /\ UNCHANGED <<catalog, gone, stmts>>
       ELSE \E o \in ExecOutcomes(SetSchemaSQL(d[p]), catalog) :
            /\ Sent(p, SetSchemaSQL(d[p]), "", o.out)
            /\ catalog' = o.cat
            /\ gone' = IF Tracking THEN Removed(o.cat, "drop") ELSE gone
            /\ IF o.out \in {"error", "rejected"}
               THEN Return(p, ErrSchema)
               ELSE /\ pc' = [pc EXCEPT ![p] = "setversion"]
                    /\ UNCHANGED <<err, writer, readers>>
    /\ UNCHANGED <<supported, op, d, found, parallelism, calls, prev, dirty>>

\* setExtVersion
SetExtVersion(p) ==
    /\ pc[p] = "setversion"
    /\ IF ~HasChangeVersion(d[p])
       THEN /\ pc' = [pc EXCEPT ![p] = ConfirmStep]
            /\ UNCHANGED <<catalog, gone, err, writer, readers, stmts>>
       ELSE \E o \in ExecOutcomes(SetVersionSQL(d[p]), catalog) :
            /\ Sent(p, SetVersionSQL(d[p]), "", o.out)
            /\ catalog' = o.cat
            /\ gone' = IF Tracking THEN Removed(o.cat, "drop") ELSE gone
            /\ IF o.out \in {"error", "rejected"}
               THEN Return(p, ErrVersion)
               ELSE /\ pc' = [pc EXCEPT ![p] = ConfirmStep]
                    /\ UNCHANGED <<err, writer, readers>>
    /\ UNCHANGED <<supported, op, d, found, parallelism, calls, prev, dirty>>

\* What the engine keeps of a ResourceData once the call has returned: the
\* identity and the attributes that were read.
Persisted(desc) == [desc EXCEPT !.nschema = "", !.nversion = ""]

\* The engine takes the result of the call and keeps the state.
Done(p) ==
    /\ pc[p] = "ret"
    /\ pc' = [pc EXCEPT ![p] = "idle"]
    /\ d' = [d EXCEPT ![p] = Persisted(d[p])]
    /\ op' = [op EXCEPT ![p] = "none"]
    /\ err' = [err EXCEPT ![p] = "none"]
    /\ found' = [found EXCEPT ![p] = FALSE]
    /\ stmts' = [stmts EXCEPT ![p] = <<>>]
    /\ IF Tracking THEN prev' = Summary(p) ELSE prev' = prev
    /\ UNCHANGED <<supported, catalog, gone, writer, readers, parallelism, calls, dirty>>

\* Something other than this provider drops the extension.
OutOfBandDrop(n) ==
    /\ catalog[n] # NoRow
    /\ catalog' = [catalog EXCEPT ![n] = NoRow]
    /\ gone' = IF Tracking THEN [gone EXCEPT ![n] = "oob"] ELSE gone
    /\ IF Tracking THEN dirty' = TRUE ELSE dirty' = dirty
    /\ UNCHANGED <<supported, writer, readers, pc, op, d, err, found, stmts, parallelism, calls, prev>>

Next ==
    \/ \E p \in Procs, n \in Names, s \in Schemas \cup {""}, v \in Versions \cup {""} :
          Call(p, "Create", n, s, v)
    \/ \E p \in Procs, s \in Schemas \cup {""}, v \in Versions \cup {""} :
          Call(p, "Update", "", s, v)
    \/ \E p \in Procs, o \in {"Read", "Delete", "Exists"} : Call(p, o, "", "", "")
    \/ \E p \in Procs, n \in Names : Import(p, n)
    \/ \E p \in Procs : FeatureGate(p)
    \/ \E p \in Procs : Acquire(p)
    \/ \E p \in Procs : CreateExec(p)
    \/ \E p \in Procs : ReadImpl(p)
    \/ \E p \in Procs : ExistsQuery(p)
    \/ \E p \in Procs : DropExec(p)
    \/ \E p \in Procs : SetExtSchema(p)
    \/ \E p \in Procs : SetExtVersion(p)
    \/ \E p \in Procs : Done(p)
    \/ \E n \in Names : OutOfBandDrop(n)

\* concurrent calls
Spec == Init /\ [][Next]_vars

\* one call at a time, with the history of the last call
SpecSerial == InitSerial /\ [][Next]_vars

\* the steps of goroutine p inside a handler, once the engine has called it
Handler(p) ==
    \/ FeatureGate(p)
    \/ CreateExec(p)
    \/ ReadImpl(p)
    \/ ExistsQuery(p)
    \/ DropExec(p)
    \/ SetExtSchema(p)
    \/ SetExtVersion(p)

\* Concurrent calls where every goroutine keeps running, every database
\* call returns, and the lock is fair: a goroutine that can take the lock
\* again and again gets it.
SpecFair ==
    /\ InitFair
    /\ [][Next]_vars
    /\ \A p \in Procs : WF_vars(Handler(p)) /\ SF_vars(Acquire(p))

----------------------------------------------------------------------------
\* Vocabulary of the properties.

ExclusiveOps == {"Create", "Update", "Delete", "Exists"}

\* p is between its Lock()/RLock() and its return
InCritical(p) == pc[p] \in {"create", "exists", "readimpl", "drop", "setschema", "setversion"}

\* p has returned to the engine
Returned(p) == pc[p] \in {"ret", "idle"}

\* this step sends a statement of p to the database
Issues(p) == Len(stmts'[p]) > Len(stmts[p])

\* this step is a step of p's handler
Steps(p) == pc'[p] # pc[p] /\ pc[p] \notin {"idle", "ret"}

IsRelocation(st) == Len(st.sql) >= 3 /\ st.sql[1] = "ALTER EXTENSION" /\ st.sql[3] = "SET SCHEMA"
IsUpgrade(st) == Len(st.sql) >= 3 /\ st.sql[1] = "ALTER EXTENSION" /\ st.sql[3] = "UPDATE"
IsSelect(st) == st.sql \in {<<ReadQuerySQL>>, <<ExistsQuerySQL>>}
Count(sq, P(_)) == Cardinality({i \in 1..Len(sq) : P(sq[i])})

----------------------------------------------------------------------------
\* C1: when the client reports the extension feature as unsupported, each of
\* Create, Read, Update, Delete and Exists returns the UnsupportedFeature
\* error; it does so before taking the catalog lock in either mode and without
\* sending a statement, and the catalog and the descriptor stay as they were.
C1_NoneBeyondGate ==
    ~supported =>
        /\ writer = NoProc /\ readers = {}
        /\ \A p \in Procs :
            /\ pc[p] \in {"idle", "gate", "ret"}
            /\ stmts[p] = <<>>
            /\ pc[p] = "ret" => err[p] = ErrUnsupported

C1_GateStep ==
    \A p \in Procs :
        (~supported /\ Steps(p)) =>
            /\ op[p] \in Ops
            /\ pc'[p] = "ret"
            /\ err'[p] = ErrUnsupported
            /\ catalog' = catalog
            /\ d'[p] = d[p]
            /\ writer' = writer /\ readers' = readers

\* C1: no goroutine gets past the check of an unsupported client, and the
\* step that returns the error touches nothing.
C1_CapabilityGate == []C1_NoneBeyondGate /\ [][C1_GateStep]_vars

C1_Witness ==
    /\ ~supported
    /\ \E p \in Procs, q \in Procs :
        /\ pc[p] = "ret" /\ op[p] = "Read" /\ err[p] = ErrUnsupported
        /\ pc[q] = "ret" /\ op[q] = "Create" /\ err[q] = ErrUnsupported

\* C2: the statements of two concurrent exclusive operations (any two of
\* Create, Update, Delete, Exists) on one client never interleave: when one
\* sends a statement, the other has sent none in its call or has returned.
C2_SendStep ==
    \A q \in Procs :
        (Issues(q) /\ op[q] \in ExclusiveOps) =>
            \A p \in Procs \ {q} :
                op[p] \in ExclusiveOps => (stmts[p] = <<>> \/ Returned(p))

\* C2: every step keeps the statements of exclusive calls apart.
C2_NoInterleaving == [][C2_SendStep]_vars

C2_Witness ==
    \E p \in Procs, q \in Procs :
        /\ p # q
        /\ op[p] = "Delete" /\ pc[p] = "ret" /\ Len(stmts[p]) = 1
        /\ op[q] = "Create" /\ pc[q] = "readimpl" /\ Len(stmts[q]) = 1

\* C3: Read holds the catalog lock shared: Reads may be between lock and return
\* together, but never a Read together with a Create, Update, Delete or Exists,
\* and never two of those.
C3_ReadersShareOnly ==
    \A p \in Procs, q \in Procs :
        (p # q /\ InCritical(p) /\ InCritical(q)) => (op[p] = "Read" /\ op[q] = "Read")

C3_Witness ==
    \E p \in Procs, q \in Procs :
        /\ p # q
        /\ op[p] = "Read" /\ op[q] = "Read"
        /\ InCritical(p) /\ InCritical(q)
        /\ readers = {p, q}

\* p's call is in the body of Update, past the lock
InUpdate(p) == op[p] = "Update" /\ pc[p] \in {"setschema", "setversion", "readimpl"}

\* the statement p's step has just sent
JustSent(p) == stmts'[p][Len(stmts'[p])]

\* p's call follows a successful call o on the same descriptor, and no row
\* was dropped out of band since that call began
AfterOwn(p, o) ==
    /\ prev.proc = p /\ prev.op = o /\ prev.err = "ok"
    /\ ~prev.dirty /\ ~dirty

\* C4: when the row of the extension is gone (dropped by something other than
\* this provider), Read on the descriptor that names it returns without error
\* and with the identity cleared to ""; Read returns an error only when its
\* query fails for another reason than 'no rows'.
C4_ReadStep ==
    \A p \in Procs :
        (op[p] = "Read" /\ pc[p] = "readimpl" /\ Steps(p)) =>
            /\ pc'[p] = "ret"
            /\ (Lookup(catalog, d[p].id) = NoRow /\ JustSent(p).out # "error") =>
                    (err'[p] = "ok" /\ d'[p].id = "")
            /\ err'[p] # "ok" => (JustSent(p).out = "error" /\ err'[p] = ErrReading)

\* C4: every returning step of Read treats a missing row as success.
C4_DriftIsNotAnError == [][C4_ReadStep]_vars

C4_Witness ==
    \E p \in Procs :
        /\ pc[p] = "ret" /\ op[p] = "Read" /\ err[p] = "ok" /\ d[p].id = ""
        /\ Len(stmts[p]) = 1
        /\ stmts[p][1].arg \in Names
        /\ stmts[p][1].out = "norows"
        /\ gone[stmts[p][1].arg] = "oob"

\* previous == desired: neither the schema nor the version changes
Unchanged(desc) == desc.nschema = desc.schema /\ desc.nversion = desc.version

\* C5, as claimed: Update with previous == desired sends no statement at all
\* and succeeds (taken for the descriptors that name an extension).
C5_NoOpStepSendsNothing ==
    \A p \in Procs :
        (InUpdate(p) /\ Unchanged(d[p]) /\ d[p].id \in Names /\ Steps(p)) =>
            /\ stmts'[p] = <<>>
            /\ pc'[p] = "ret" => err'[p] = "ok"

\* C5, as claimed, over every step of such an Update.
C5_NoOpUpdateSendsNothing == [][C5_NoOpStepSendsNothing]_vars

\* C5, amended: Update with previous == desired sends no ALTER statement and
\* leaves the catalog as it is; the one statement it sends is the SELECT of its
\* confirming read, and it succeeds unless that query fails.
C5_NoOpStep ==
    \A p \in Procs :
        (InUpdate(p) /\ Unchanged(d[p]) /\ Steps(p)) =>
            /\ catalog' = catalog
            /\ \A i \in 1..Len(stmts'[p]) : stmts'[p][i].sql = <<ReadQuerySQL>>
            /\ pc'[p] = "ret" =>
                /\ Len(stmts'[p]) = 1
                /\ err'[p] = "ok" <=> JustSent(p).out # "error"
                /\ err'[p] # "ok" => err'[p] = ErrReading

\* C5, amended, over every step of such an Update.
C5_NoOpUpdateOnlyReads == [][C5_NoOpStep]_vars

C5_Witness ==
    \E p \in Procs :
        /\ pc[p] = "ret" /\ op[p] = "Update" /\ err[p] = "ok"
        /\ d[p].id \in Names
        /\ Unchanged(d[p])
        /\ Len(stmts[p]) = 1
        /\ stmts[p][1].sql = <<ReadQuerySQL>>
        /\ stmts[p][1].out = "row"

\* C6: Update whose new schema is "" while the old one is not fails with the
\* validation error before any statement is sent: no relocation, no upgrade
\* (even when the version changes too), no confirming read; the catalog stays
\* as it is.
C6_EmptySchemaStep ==
    \A p \in Procs :
        (op[p] = "Update" /\ pc[p] = "setschema" /\ Steps(p)
           /\ d[p].nschema = "" /\ d[p].schema # "") =>
            /\ pc'[p] = "ret"
            /\ err'[p] = ErrEmptySchema
            /\ stmts'[p] = <<>>
            /\ catalog' = catalog

\* C6: every such step of setExtSchema returns the validation error at once.
C6_EmptySchemaRejected == [][C6_EmptySchemaStep]_vars

C6_Witness ==
    \E p \in Procs :
        /\ pc[p] = "ret" /\ op[p] = "Update" /\ err[p] = ErrEmptySchema
        /\ d[p].nschema = "" /\ d[p].schema # ""
        /\ d[p].nversion # d[p].version
        /\ stmts[p] = <<>>

\* p's Read has returned a descriptor, right after its own successful Create
\* that named a schema and a version
ReadAfterCreate(p) ==
    /\ pc[p] = "ret" /\ op[p] = "Read" /\ err[p] = "ok"
    /\ AfterOwn(p, "Create")
    /\ prev.d.nschema # "" /\ prev.d.nversion # ""

ShowsDesired(p) ==
    /\ d[p].id = prev.d.name
    /\ d[p].name = prev.d.name
    /\ d[p].schema = prev.d.nschema
    /\ d[p].version = prev.d.nversion

\* C7, as claimed: whatever the catalog held before, a Read that follows a
\* successful Create returns the name, schema and version that were asked for.
C7_RoundTripAnyCatalog ==
    \A p \in Procs : ReadAfterCreate(p) => ShowsDesired(p)

\* C7, amended: a Read that follows a successful Create returns the name,
\* schema and version that were asked for, provided the CREATE statement made
\* the extension, that is, none of that name was in the catalog before.
C7_RoundTrip ==
    \A p \in Procs :
        (ReadAfterCreate(p) /\ prev.stmts[1].out = "ok") => ShowsDesired(p)

C7_Witness ==
    \E p \in Procs :
        /\ ReadAfterCreate(p)
        /\ prev.stmts[1].out = "ok"
        /\ ShowsDesired(p)
        /\ d[p].schema # DefaultSchema
        /\ d[p].version # DefaultVersion

\* p's Create has returned, right after its own successful Create of the same
\* desired state
SecondCreate(p) ==
    /\ pc[p] = "ret" /\ op[p] = "Create"
    /\ AfterOwn(p, "Create")
    /\ Len(stmts[p]) >= 1
    /\ stmts[p][1].sql = prev.stmts[1].sql
    /\ d[p].nschema = prev.d.nschema /\ d[p].nversion = prev.d.nversion

\* C8: Create twice in a row with the same desired state: the second call
\* is not refused and leaves the catalog as it is (its statement is skipped),
\* and, the driver not failing, it succeeds with the identity, schema and
\* version the first call gave.
C8_CreateIdempotent ==
    \A p \in Procs :
        SecondCreate(p) =>
            /\ stmts[p][1].out \in {"skipped", "error"}
            /\ (\A i \in 1..Len(stmts[p]) : stmts[p][i].out # "error") =>
                /\ err[p] = "ok"
                /\ d[p].id = prev.d.id
                /\ d[p].name = prev.d.name
                /\ d[p].schema = prev.d.schema
                /\ d[p].version = prev.d.version

C8_Witness ==
    \E p \in Procs :
        /\ SecondCreate(p)
        /\ prev.stmts[1].out = "ok"
        /\ stmts[p][1].out = "skipped"
        /\ err[p] = "ok"
        /\ d[p].id \in Names
        /\ d[p].schema = prev.d.schema /\ d[p].version = prev.d.version

\* C9, as claimed: when Create or Update returns without error, the identity
\* is not empty and names a row of the catalog, and the schema and version of
\* the descriptor are those of that row.
C9_SuccessStep ==
    \A p \in Procs :
        (op[p] \in {"Create", "Update"} /\ Steps(p) /\ pc'[p] = "ret" /\ err'[p] = "ok") =>
            /\ d'[p].id \in Names
            /\ catalog'[d'[p].id] = [schema |-> d'[p].schema, version |-> d'[p].version]

\* C9, as claimed, over every step in which Create or Update returns nil.
C9_IdentityAfterSuccess == [][C9_SuccessStep]_vars

OnlySchema(desc) ==
    desc.nschema # desc.schema /\ desc.nschema # "" /\ desc.nversion = desc.version
OnlyVersion(desc) ==
    desc.nversion # desc.version /\ desc.nschema = desc.schema

\* p's Read has returned a descriptor, right after its own successful Update
\* that sent a relocation and its confirming read, nothing else
ReadAfterRelocation(p) ==
    /\ pc[p] = "ret" /\ op[p] = "Read" /\ err[p] = "ok"
    /\ AfterOwn(p, "Update")
    /\ Len(prev.stmts) = 2
    /\ IsRelocation(prev.stmts[1])

\* C10: an Update in which only the schema changes (to a schema that is not
\* "") sends exactly one relocation statement and no upgrade statement, and a
\* Read after it shows the new schema; an Update in which only the version
\* changes sends exactly one upgrade statement and no relocation.
C10_UpdateStep ==
    \A p \in Procs :
        (InUpdate(p) /\ Steps(p) /\ pc'[p] = "ret") =>
            /\ OnlySchema(d[p]) =>
                /\ Count(stmts'[p], IsRelocation) = 1
                /\ Count(stmts'[p], IsUpgrade) = 0
            /\ OnlyVersion(d[p]) =>
                /\ Count(stmts'[p], IsUpgrade) = 1
                /\ Count(stmts'[p], IsRelocation) = 0

C10_ReadAfter ==
    \A p \in Procs :
        ReadAfterRelocation(p) => (d[p].id \in Names /\ d[p].schema = prev.d.nschema)

\* C10: the statements of a one-field Update, and the Read that follows.
C10_SingleFieldUpdate == [][C10_UpdateStep]_vars /\ []C10_ReadAfter

C10_Witness ==
    \E p \in Procs :
        /\ ReadAfterRelocation(p)
        /\ d[p].schema = prev.d.nschema
        /\ d[p].version = prev.d.version

----------------------------------------------------------------------------
\* C11: a Delete whose DROP succeeds leaves no row of the extension in the
\* catalog and a descriptor without identity, and returns no error; a Delete
\* whose DROP fails returns an error and leaves the descriptor and the
\* catalog as they were; an Exists called next on that descriptor, after a
\* successful Delete, reports "not found", and reports no error unless the
\* driver fails on its query.
C11_DeleteStep ==
    \A p \in Procs :
        (op[p] = "Delete" /\ pc[p] = "drop" /\ Steps(p)) =>
            /\ Issues(p)
            /\ JustSent(p).sql[1] = "DROP EXTENSION"
            /\ pc'[p] = "ret"
            /\ IF JustSent(p).out = "ok"
               THEN /\ err'[p] = "ok"
                    /\ d'[p].id = ""
                    /\ d[p].id \in Names
                    /\ catalog'[d[p].id] = NoRow
               ELSE /\ err'[p] = ErrDeleting
                    /\ d'[p] = d[p]
                    /\ catalog' = catalog

C11_ExistsAfterDelete ==
    \A p \in Procs :
        (/\ pc[p] = "ret" /\ op[p] = "Exists" /\ supported
         /\ prev.proc = p /\ prev.op = "Delete" /\ prev.err = "ok") =>
            /\ found[p] = FALSE
            /\ Len(stmts[p]) = 1
            /\ stmts[p][1].out # "error" => err[p] = "ok"

C11_DeleteThenExists == []C11_ExistsAfterDelete /\ [][C11_DeleteStep]_vars

C11_Witness ==
    \E p \in Procs :
        /\ pc[p] = "ret" /\ op[p] = "Exists" /\ err[p] = "ok" /\ ~found[p]
        /\ prev.proc = p /\ prev.op = "Delete" /\ prev.err = "ok"
        /\ Len(prev.stmts) = 1 /\ prev.stmts[1].out = "ok"
        /\ Len(stmts[p]) = 1 /\ stmts[p][1].out = "norows"

----------------------------------------------------------------------------
\* the call changes both the schema (to a non-empty one) and the version
ChangesBoth(desc) ==
    desc.nschema # desc.schema /\ desc.nschema # "" /\ desc.nversion # desc.version

\* C12: in an Update that changes both schema and version the first
\* statement is the relocation; when it fails the Update returns the error
\* with that one statement sent; the upgrade is the second statement and is
\* sent only after a successful relocation; when the upgrade fails the Update
\* returns an error with those two statements sent (no compensating
\* statement, no confirming read), and the catalog keeps the new schema and
\* the old version; a call that has returned sends nothing more.
C12_RelocationStep ==
    \A p \in Procs :
        (InUpdate(p) /\ ChangesBoth(d[p]) /\ pc[p] = "setschema" /\ Steps(p)) =>
            /\ Issues(p)
            /\ Len(stmts'[p]) = 1
            /\ IsRelocation(JustSent(p))
            /\ IF JustSent(p).out = "ok"
               THEN /\ pc'[p] = "setversion"
                    /\ catalog' = [catalog EXCEPT ![d[p].id].schema = d[p].nschema]
               ELSE /\ pc'[p] = "ret"
                    /\ err'[p] = ErrSchema
                    /\ catalog' = catalog

C12_UpgradeStep ==
    \A p \in Procs :
        (InUpdate(p) /\ ChangesBoth(d[p]) /\ pc[p] = "setversion" /\ Steps(p)) =>
            /\ Issues(p)
            /\ Len(stmts'[p]) = 2
            /\ IsRelocation(stmts'[p][1]) /\ stmts'[p][1].out = "ok"
            /\ IsUpgrade(JustSent(p))
            /\ JustSent(p).out # "ok" =>
                 /\ pc'[p] = "ret"
                 /\ err'[p] = ErrVersion
                 /\ catalog' = catalog
                 /\ ~dirty => catalog'[d[p].id].schema = d[p].nschema
                 /\ (\E o \in {"Create", "Read", "Update"} : AfterOwn(p, o)) =>
                        catalog'[d[p].id] = [schema |-> d[p].nschema, version |-> d[p].version]

C12_ReturnedStep ==
    \A p \in Procs : pc[p] = "ret" => ~Issues(p)

C12_RelocationBeforeUpgrade ==
    [][C12_RelocationStep /\ C12_UpgradeStep /\ C12_ReturnedStep]_vars

C12_Witness ==
    \E p \in Procs :
        /\ pc[p] = "ret" /\ op[p] = "Update" /\ err[p] = ErrVersion
        /\ ChangesBoth(d[p])
        /\ Len(stmts[p]) = 2 /\ stmts[p][1].out = "ok"
        /\ AfterOwn(p, "Create")
        /\ catalog[d[p].id] = [schema |-> d[p].nschema, version |-> d[p].version]

----------------------------------------------------------------------------
\* the statement is one that changes the catalog: CREATE, ALTER or DROP
IsChange(st) == st.sql[1] \in {"CREATE EXTENSION IF NOT EXISTS", "ALTER EXTENSION", "DROP EXTENSION"}

\* the error of the operation whose statement failed
ChangeErr(st) ==
    CASE st.sql[1] = "CREATE EXTENSION IF NOT EXISTS" -> ErrCreating
      [] st.sql[1] = "DROP EXTENSION" -> ErrDeleting
      [] IsRelocation(st) -> ErrSchema
      [] IsUpgrade(st) -> ErrVersion

\* C13: when the CREATE, ALTER or DROP statement of Create, Update or Delete
\* fails, the operation returns its error in that step, having sent that
\* statement once, and the descriptor is what it was before the statement:
\* the identity stays empty in a failed Create and stays what it was in a
\* failed Delete or Update; a call that has returned with that error has the
\* failed statement as its last one, and the descriptor it was called with.
C13_FailedStep ==
    \A p \in Procs :
        (Steps(p) /\ Issues(p) /\ IsChange(JustSent(p)) /\ JustSent(p).out # "ok"
                  /\ JustSent(p).out # "skipped") =>
            /\ op[p] \in {"Create", "Update", "Delete"}
            /\ pc'[p] = "ret"
            /\ err'[p] = ChangeErr(JustSent(p))
            /\ stmts'[p] = Append(stmts[p], JustSent(p))
            /\ \A i \in 1..Len(stmts[p]) : stmts[p][i].out = "ok" /\ stmts[p][i] # JustSent(p)
            /\ d'[p] = d[p]
            /\ op[p] = "Create" => d'[p].id = ""
            /\ catalog' = catalog

C13_FailedCall ==
    \A p \in Procs :
        (pc[p] = "ret" /\ err[p] \in {ErrCreating, ErrDeleting, ErrSchema, ErrVersion}) =>
            /\ stmts[p] # <<>>
            /\ stmts[p][Len(stmts[p])].out \in {"error", "rejected"}
            /\ IsChange(stmts[p][Len(stmts[p])])
            /\ op[p] = "Create" => d[p].id = ""
            /\ op[p] = "Create" => d[p] = NewDescriptor(d[p].name, d[p].nschema, d[p].nversion)

----------------------------------------------------------------------------
\* p holds the catalog lock, exclusively or shared
Holds(p) == writer = p \/ p \in readers

\* C14: an operation that has returned, by success, validation failure or
\* driver error, does not hold the catalog lock: the lock is held only by
\* operations between their acquisition and their return, and it is free
\* whenever no operation is in progress.
C14_LockReleased ==
    /\ \A p \in Procs : Holds(p) <=> InCritical(p)
    /\ \A p \in Procs : Returned(p) => ~Holds(p)
    /\ (\A p \in Procs : Returned(p)) => (writer = NoProc /\ readers = {})

C14_Witness ==
    \E p \in Procs, q \in Procs :
        /\ p # q
        /\ pc[p] = "ret" /\ op[p] = "Update" /\ err[p] = ErrEmptySchema
        /\ pc[q] = "ret" /\ op[q] = "Delete" /\ err[q] = ErrDeleting
        /\ writer = NoProc /\ readers = {}

----------------------------------------------------------------------------
\* the database or the driver failed on this statement
Failed(st) == st.out \in {"error", "rejected"}

\* C15: an operation that returns after the driver failed on one of its
\* statements returns an error that carries the context of the operation
\* (one of the "Error ... extension: ..." wrappings), never the bare driver
\* error and never success; 'no rows' is the only outcome of a query that is
\* returned as success.
C15_ErrorsWrapped ==
    \A p \in Procs :
        pc[p] = "ret" =>
            /\ err[p] # ErrDriver
            /\ (\E i \in 1..Len(stmts[p]) : Failed(stmts[p][i])) => err[p] \in WrappedErrors

----------------------------------------------------------------------------
\* C16: an operation that is about to take the catalog lock does not hold
\* it, and under fair scheduling every operation that was called returns.
C16_NoReacquire == \A p \in Procs : pc[p] = "lock" => ~Holds(p)

C16_Returns == \A p \in Procs : (pc[p] = "gate") ~> (pc[p] = "ret")

C16_NoDeadlock == []C16_NoReacquire /\ C16_Returns

C16_Witness ==
    \E p \in Procs, q \in Procs :
        /\ p # q
        /\ op[p] = "Create" /\ pc[p] = "readimpl" /\ writer = p
        /\ op[q] = "Update" /\ pc[q] = "lock"

----------------------------------------------------------------------------
\* p is in the middle of a Create, Update or Delete: it has taken the lock
\* and has not returned
MidChange(p) == op[p] \in {"Create", "Update", "Delete"} /\ InCritical(p)

\* p's Update has relocated the extension and has not yet upgraded it
BetweenRelocationAndUpgrade(p) ==
    /\ op[p] = "Update" /\ pc[p] = "setversion"
    /\ Len(stmts[p]) = 1 /\ IsRelocation(stmts[p][1]) /\ stmts[p][1].out = "ok"

\* C17: the SELECT of a Read is sent only when no Create, Update or Delete
\* of another goroutine is between its lock and its return, and what the
\* Read returns is the row of the catalog at that moment; while an Update is
\* between its relocation and its upgrade, no Read is past the lock.
C17_ReadStep ==
    \A q \in Procs :
        (op[q] = "Read" /\ Issues(q)) =>
            /\ \A p \in Procs \ {q} : ~MidChange(p)
            /\ JustSent(q).out = "row" =>
                 /\ d'[q].schema = catalog[d[q].id].schema
                 /\ d'[q].version = catalog[d[q].id].version

C17_NoReadMidUpdate ==
    \A p \in Procs, q \in Procs :
        (BetweenRelocationAndUpgrade(p) /\ op[q] = "Read") => ~InCritical(q)

C17_ReadSeesNoMidState == []C17_NoReadMidUpdate /\ [][C17_ReadStep]_vars

C17_Witness ==
    \E p \in Procs, q \in Procs :
        /\ BetweenRelocationAndUpgrade(p) /\ HasChangeVersion(d[p])
        /\ op[q] = "Read" /\ pc[q] = "lock" /\ d[q].id = d[p].id

----------------------------------------------------------------------------
\* the statement has the keyword among its tokens
HasToken(sql, kw) == \E i \in 1..Len(sql) : sql[i] = kw

\* an identifier as it stands in a statement
Quoted(x) == "\"" \o x \o "\""

\* C18: the statement of Create is CREATE EXTENSION IF NOT EXISTS and the
\* quoted name, then SCHEMA and the quoted schema exactly when a schema was
\* supplied, then VERSION and the quoted version exactly when a version was
\* supplied, SCHEMA before VERSION when both are there; the upgrade statement
\* of Update is ALTER EXTENSION, the quoted name and UPDATE, followed by TO
\* and the quoted version exactly when the new version is not empty.
C18_CreateStep ==
    \A p \in Procs :
        (op[p] = "Create" /\ pc[p] = "create" /\ Issues(p)) =>
            LET sql == JustSent(p).sql
                s == d[p].nschema
                v == d[p].nversion
            IN  /\ sql[1] = "CREATE EXTENSION IF NOT EXISTS"
                /\ sql[2] = Quoted(d[p].name)
                /\ HasToken(sql, "SCHEMA") <=> s # ""
                /\ HasToken(sql, "VERSION") <=> v # ""
                /\ Len(sql) = 2 + (IF s # "" THEN 2 ELSE 0) + (IF v # "" THEN 2 ELSE 0)
                /\ s # "" => (sql[3] = "SCHEMA" /\ sql[4] = Quoted(s))
                /\ v # "" => (sql[Len(sql) - 1] = "VERSION" /\ sql[Len(sql)] = Quoted(v))

C18_UpgradeStep ==
    \A p \in Procs :
        (op[p] = "Update" /\ pc[p] = "setversion" /\ Issues(p)) =>
            LET sql == JustSent(p).sql
                v == d[p].nversion
                bare == <<"ALTER EXTENSION", Quoted(d[p].id), "UPDATE">>
            IN  /\ HasToken(sql, "TO") <=> v # ""
                /\ v = "" => sql = bare
                /\ v # "" => sql = bare \o <<"TO", Quoted(v)>>

C18_OptionalClauses == [][C18_CreateStep /\ C18_UpgradeStep]_vars

C18_Witness ==
    \E p \in Procs, q \in Procs :
        /\ op[p] = "Create" /\ Len(stmts[p]) >= 1
        /\ Len(stmts[p][1].sql) = 4 /\ stmts[p][1].sql[3] = "VERSION"
        /\ op[q] = "Update" /\ Len(stmts[q]) >= 1
        /\ IsUpgrade(stmts[q][Len(stmts[q])]) /\ Len(stmts[q][Len(stmts[q])].sql) = 3
        /\ stmts[q][Len(stmts[q])].out = "ok"

====
